---------------------------- MODULE Spec2Model ----------------------------
(***************************************************************************)
(* Four-bar linkage viewer (src/src/main.rs): the three process-wide       *)
(* singletons FOUR_BAR, SELECTED_JOINT and ANIMATE, the GTK callbacks that *)
(* write them (drag_begin, drag_update, drag_end, toggled, tick) and the   *)
(* kinematics they call (length, angle, get_rocker_pos,                    *)
(* draw_coupler_curve).                                                    *)
(*                                                                         *)
(* Arithmetic.  The source computes in f64.  The model computes the same   *)
(* expressions exactly, over the reals of the form (n/d)*sqrt(s) with s    *)
(* squarefree, and keeps f64's not-a-number:                               *)
(*   <<n, d, s>>  d > 0, s >= 1   the real (n/d)*sqrt(s), in lowest terms  *)
(*   <<0, 0, 0>>  NaN             sqrt of a negative, a division by zero   *)
(*   <<0, 0, 1>>  Irr             a finite real outside the representable  *)
(*                                set (a sum of two different surds)       *)
(* A division by zero gives NaN: where f64 would give an infinity (only    *)
(* for r = 0 in get_rocker_pos) the source multiplies it by p2 - p1 = 0 or *)
(* subtracts it from another infinity, which is NaN as well.               *)
(* An angle is kept as the direction <<u, v>> it points in, the angle      *)
(* itself being atan2(v, u): the source only ever adds and subtracts       *)
(* angles and takes their sine and cosine.                                 *)
(* Coordinates are kept in units of 50 pixels (Px), which keeps every      *)
(* intermediate product inside TLC's integers.                             *)
(***************************************************************************)
EXTENDS Integers, Sequences, FiniteSets, TLC

VARIABLES
    FOUR_BAR,        \* [0..4 -> point]: rocker_joint, crank_joint, crank_ground, rocker_ground, tracer_point
    SELECTED_JOINT,  \* None or Some(<<index, point at drag begin>>)
    ANIMATE,         \* None or Some(snapshot of FOUR_BAR)
    active,          \* the toggle button's state (button.is_active())
    curve,           \* the points the last draw passed to line_to, in order
    panicked,        \* an unwrap() of None has aborted the process
    event,           \* the callback that ran last
    edits,           \* number of drag_update writes so far
    ticks            \* number of animating ticks since animation was switched on

vars == <<FOUR_BAR, SELECTED_JOINT, ANIMATE, active, curve, panicked, event, edits, ticks>>

---------------------------------------------------------------------------
(* Bounds of the model.                                                    *)
MaxEdits == 1
MaxTicks == 4

---------------------------------------------------------------------------
(* Option<T>                                                               *)
None == <<>>
Some(v) == <<v>>
is_some(o) == Len(o) = 1
unwrap(o) == o[1]

---------------------------------------------------------------------------
(* Exact arithmetic on (n/d)*sqrt(s), with NaN.                            *)
NaN == <<0, 0, 0>>
Irr == <<0, 0, 1>>
IsNaN(a) == a[2] = 0 /\ a[3] = 0
IsIrr(a) == a[2] = 0 /\ a[3] = 1
IsNum(a) == a[2] > 0

Abs(n) == IF n < 0 THEN -n ELSE n

RECURSIVE Gcd(_, _)
Gcd(a, b) == IF b = 0 THEN a ELSE Gcd(b, a % b)

\* The largest k >= 1 with k*k dividing m (m >= 1), searched from f upwards.
RECURSIVE SquarePart(_, _)
SquarePart(m, f) ==
    IF f * f > m THEN 1
    ELSE IF m % (f * f) = 0 THEN f * SquarePart(m \div (f * f), f)
    ELSE SquarePart(m, f + 1)

\* (n/d)*sqrt(s) in lowest terms; d # 0, s >= 1 squarefree.
Norm(n, d, s) ==
    IF n = 0 THEN <<0, 1, 1>>
    ELSE LET g == Gcd(Abs(n), Abs(d))
             sg == IF d < 0 THEN -1 ELSE 1
         IN  <<sg * (n \div g), sg * (d \div g), s>>

R(n) == <<n, 1, 1>>
Half == <<1, 2, 1>>

Neg(a) == IF IsNum(a) THEN <<-a[1], a[2], a[3]>> ELSE a

\* Cross-cancelled before multiplying: the factors stay small.
Mul(a, b) ==
    IF IsNaN(a) \/ IsNaN(b) THEN NaN
    ELSE IF IsIrr(a) \/ IsIrr(b) THEN Irr
    ELSE IF a[1] = 0 \/ b[1] = 0 THEN R(0)
    ELSE LET g  == Gcd(a[3], b[3])
             g1 == Gcd(Abs(a[1]), b[2])
             g2 == Gcd(Abs(b[1]), a[2])
         IN  Norm((a[1] \div g1) * (b[1] \div g2) * g,
                  (a[2] \div g2) * (b[2] \div g1),
                  (a[3] \div g) * (b[3] \div g))

\* 1 / ((n/d)*sqrt(s)) = (d / (n*s)) * sqrt(s)
Div(a, b) ==
    IF IsNaN(a) \/ IsNaN(b) THEN NaN
    ELSE IF IsIrr(a) \/ IsIrr(b) THEN Irr
    ELSE IF b[1] = 0 THEN NaN
    ELSE Mul(a, Norm(b[2], b[1] * b[3], b[3]))

\* Over the least common denominator.
Add(a, b) ==
    IF IsNaN(a) \/ IsNaN(b) THEN NaN
    ELSE IF IsIrr(a) \/ IsIrr(b) THEN Irr
    ELSE IF a[1] = 0 THEN b
    ELSE IF b[1] = 0 THEN a
    ELSE IF a[3] # b[3] THEN Irr
    ELSE LET g == Gcd(a[2], b[2])
         IN  Norm(a[1] * (b[2] \div g) + b[1] * (a[2] \div g),
                  a[2] * (b[2] \div g), a[3])

Sub(a, b) == Add(a, Neg(b))

\* f64::sqrt: NaN for a negative argument.
Sqrt(a) ==
    IF IsNaN(a) THEN NaN
    ELSE IF IsIrr(a) THEN Irr
    ELSE IF a[1] < 0 THEN NaN
    ELSE IF a[1] = 0 THEN R(0)
    ELSE IF a[3] # 1 THEN Irr
    ELSE LET kn == SquarePart(a[1], 2)
             kd == SquarePart(a[2], 2)
             sn == a[1] \div (kn * kn)
             sd == a[2] \div (kd * kd)
         IN  Norm(kn, kd * sd, sn * sd)

\* f64::powf(2.0), f64::powf(4.0)
Pow2(a) == Mul(a, a)
Pow4(a) == Pow2(Pow2(a))

Sign(a) == IF a[1] > 0 THEN 1 ELSE IF a[1] < 0 THEN -1 ELSE 0

\* a < b on f64: FALSE when either side is NaN.  Both sides are
\* representable wherever the source compares.
Lt(a, b) ==
    /\ IsNum(a) /\ IsNum(b)
    /\ LET sa == Sign(a)
           sb == Sign(b)
           \* the squares, as fractions: a^2 = qa[1]/qa[2]
           qa == Pow2(a)
           qb == Pow2(b)
           sqLt == qa[1] * qb[2] < qb[1] * qa[2]
           sqGt == qa[1] * qb[2] > qb[1] * qa[2]
       IN  IF sa # sb THEN sa < sb
           ELSE IF sa = 0 THEN FALSE
           ELSE IF sa > 0 THEN sqLt
           ELSE sqGt

\* A pixel coordinate, in the model's unit of 50 pixels.
Px(n) == Norm(n, 50, 1)

---------------------------------------------------------------------------
(* Angles, as directions.                                                  *)
NaNAngle == <<NaN, NaN>>
IrrAngle == <<Irr, Irr>>

\* f64::atan2(y, x); atan2(0, 0) is 0.
Atan2(y, x) ==
    IF IsNaN(y) \/ IsNaN(x) THEN NaNAngle
    ELSE IF IsIrr(y) \/ IsIrr(x) THEN IrrAngle
    ELSE IF y[1] = 0 /\ x[1] = 0 THEN <<R(1), R(0)>>
    ELSE <<x, y>>

NegAngle(a) == <<a[1], Neg(a[2])>>

\* a + b: the product of the two directions as complex numbers.
AddAngle(a, b) ==
    <<Sub(Mul(a[1], b[1]), Mul(a[2], b[2])), Add(Mul(a[1], b[2]), Mul(a[2], b[1]))>>

SubAngle(a, b) == AddAngle(a, NegAngle(b))

Cos(a) == Div(a[1], Sqrt(Add(Pow2(a[1]), Pow2(a[2]))))
Sin(a) == Div(a[2], Sqrt(Add(Pow2(a[1]), Pow2(a[2]))))

\* k quarter turns.
QuarterTurns(k) ==
    CASE k = 0 -> <<R(1), R(0)>>
      [] k = 1 -> <<R(0), R(1)>>
      [] k = 2 -> <<R(-1), R(0)>>
      [] k = 3 -> <<R(0), R(-1)>>

\* PI * 2.0 * i / n: representable when it is a whole number of quarter turns.
TurnFraction(i, n) ==
    IF (4 * i) % n = 0 THEN QuarterTurns(((4 * i) \div n) % 4) ELSE IrrAngle

---------------------------------------------------------------------------
(* Program constants.                                                      *)
JOINT_RADIUS == 10

\* The source samples the coupler curve at 1000 angles and advances the
\* crank by 0.02 rad per tick.  Neither angle has a rational sine and
\* cosine; the model takes the finest subdivision of the turn that has:
\* four samples per revolution, and a tick of one quarter turn.
COUPLER_CURVE_RESOLUTION == 4
TicksPerTurn == 4
TICK_ANGLE == TurnFraction(1, TicksPerTurn)

InitialFourBar ==
    [i \in 0..4 |->
        CASE i = 0 -> <<Px(550), Px(350)>>
          [] i = 1 -> <<Px(300), Px(400)>>
          [] i = 2 -> <<Px(350), Px(550)>>
          [] i = 3 -> <<Px(600), Px(600)>>
          [] i = 4 -> <<Px(440), Px(550)>>]

---------------------------------------------------------------------------
(* Kinematics.                                                             *)
length(p1, p2) ==
    Sqrt(Add(Pow2(Sub(p2[1], p1[1])), Pow2(Sub(p2[2], p1[2]))))

angle(p1, p2) ==
    NegAngle(Atan2(Sub(p1[2], p2[2]), Sub(p1[1], p2[1])))

\* The square-root term of get_rocker_pos.
Discriminant(coupler_length, rocker_length, r) ==
    Sub(Sub(Div(Mul(R(2), Add(Pow2(coupler_length), Pow2(rocker_length))), Pow2(r)),
            Div(Pow2(Sub(Pow2(coupler_length), Pow2(rocker_length))), Pow4(r))),
        R(1))

\* Intersection with the root subtracted: the other of the two points.
IntersectionMinusRoot(p1, p2, coupler_length, rocker_length) ==
    LET r  == length(p1, p2)
        k  == Div(Sub(Pow2(coupler_length), Pow2(rocker_length)), Mul(R(2), Pow2(r)))
        h  == Mul(Half, Sqrt(Discriminant(coupler_length, rocker_length, r)))
    IN  << Sub(Add(Mul(Half, Add(p1[1], p2[1])), Mul(k, Sub(p2[1], p1[1]))),
               Mul(h, Sub(p2[2], p1[2]))),
           Sub(Add(Mul(Half, Add(p1[2], p2[2])), Mul(k, Sub(p2[2], p1[2]))),
               Mul(h, Sub(p1[1], p2[1]))) >>

\* The expression get_rocker_pos returns: of the two points at coupler_length
\* from p1 and rocker_length from p2, the one the +sqrt term selects.
Intersection(p1, p2, coupler_length, rocker_length) ==
    LET r  == length(p1, p2)
        k  == Div(Sub(Pow2(coupler_length), Pow2(rocker_length)), Mul(R(2), Pow2(r)))
        h  == Mul(Half, Sqrt(Discriminant(coupler_length, rocker_length, r)))
    IN  << Add(Add(Mul(Half, Add(p1[1], p2[1])), Mul(k, Sub(p2[1], p1[1]))),
               Mul(h, Sub(p2[2], p1[2]))),
           Add(Add(Mul(Half, Add(p1[2], p2[2])), Mul(k, Sub(p2[2], p1[2]))),
               Mul(h, Sub(p1[1], p2[1]))) >>

get_rocker_pos(p1, joints) ==
    Intersection(p1, joints[3], length(joints[0], joints[1]), length(joints[0], joints[3]))

\* The crank joint at crank angle a.
CrankPoint(a, joints) ==
    LET crank_length == length(joints[1], joints[2])
    IN  << Add(joints[2][1], Mul(crank_length, Cos(a))),
           Sub(joints[2][2], Mul(crank_length, Sin(a))) >>

\* TracerPoint turning the offset by psi - theta instead of theta - psi.
TracerPointTurnedBack(p1, p3, joints) ==
    LET theta == angle(joints[0], joints[1])
        dx == Sub(joints[4][1], joints[1][1])
        dy == Sub(joints[4][2], joints[1][2])
        psi == angle(p3, p1)
        cos == Cos(SubAngle(psi, theta))
        sin == Sin(SubAngle(psi, theta))
    IN  << Sub(Add(p1[1], Mul(dx, cos)), Mul(dy, sin)),
           Add(Add(p1[2], Mul(dy, cos)), Mul(dx, sin)) >>

\* TracerPoint taking the offset from joints[0] instead of joints[1].
TracerPointFromRocker(p1, p3, joints) ==
    LET theta == angle(joints[0], joints[1])
        dx == Sub(joints[4][1], joints[0][1])
        dy == Sub(joints[4][2], joints[0][2])
        psi == angle(p3, p1)
        cos == Cos(SubAngle(theta, psi))
        sin == Sin(SubAngle(theta, psi))
    IN  << Sub(Add(p1[1], Mul(dx, cos)), Mul(dy, sin)),
           Add(Add(p1[2], Mul(dy, cos)), Mul(dx, sin)) >>

\* The tracer point carried along with the coupler, from its place in joints
\* to the coupler's new place between p3 and p1.
TracerPoint(p1, p3, joints) ==
    LET theta == angle(joints[0], joints[1])
        dx == Sub(joints[4][1], joints[1][1])
        dy == Sub(joints[4][2], joints[1][2])
        psi == angle(p3, p1)
        cos == Cos(SubAngle(theta, psi))
        sin == Sin(SubAngle(theta, psi))
    IN  << Sub(Add(p1[1], Mul(dx, cos)), Mul(dy, sin)),
           Add(Add(p1[2], Mul(dy, cos)), Mul(dx, sin)) >>

\* The body shared by the tick callback and by each sample of the curve:
\* <<p3, p1, p4>> for the crank joint p1.
PoseAt(p1, p3, joints) == <<p3, p1, TracerPoint(p1, p3, joints)>>
PoseOf(p1, joints) == PoseAt(p1, get_rocker_pos(p1, joints), joints)
Pose(a, joints) == PoseOf(CrankPoint(a, joints), joints)

\* draw_coupler_curve starting one sample late: i runs over 1..resolution.
draw_coupler_curve_from_one(joints) ==
    [i \in 1..COUPLER_CURVE_RESOLUTION |->
        Pose(AddAngle(TurnFraction(i, COUPLER_CURVE_RESOLUTION),
                      angle(joints[1], joints[2])), joints)[3]]
    \o <<joints[4]>>

\* The points draw_coupler_curve passes to line_to, in order.
draw_coupler_curve(joints) ==
    [i \in 1..COUPLER_CURVE_RESOLUTION |->
        Pose(AddAngle(TurnFraction(i - 1, COUPLER_CURVE_RESOLUTION),
                      angle(joints[1], joints[2])), joints)[3]]
    \o <<joints[4]>>

\* The writes without the one to joints[1].
WritePoseWithoutCrank(joints, pose) ==
    [joints EXCEPT ![0] = pose[1], ![4] = pose[3]]

\* The three writes with the crank joint stored one index too far.
WritePoseShifted(joints, pose) ==
    [joints EXCEPT ![0] = pose[1], ![2] = pose[2], ![4] = pose[3]]

\* The tick callback's three writes.
WritePose(joints, pose) ==
    [joints EXCEPT ![0] = pose[1], ![1] = pose[2], ![4] = pose[3]]

\* The linkage after the tick callback's animation branch.
tick_step(joints) ==
    WritePose(joints, Pose(AddAngle(TICK_ANGLE, angle(joints[1], joints[2])), joints))

PointIsNaN(p) == IsNaN(p[1]) \/ IsNaN(p[2])
PointIsIrr(p) == IsIrr(p[1]) \/ IsIrr(p[2])
Representable(joints) == \A i \in 0..4 : ~PointIsIrr(joints[i])

---------------------------------------------------------------------------
(* Inputs, in pixels.  The pointer goes down on rocker_joint, on           *)
(* crank_joint, on crank_ground, 10 pixels beside tracer_point, or far     *)
(* from every joint.                                                       *)
Pointers ==
    { <<550, 350>>, <<300, 400>>, <<350, 550>>, <<450, 550>>, <<100, 100>> }

DragOffsets ==
    { <<0, -100>>, <<-200, 400>>, <<-100, 100>>, <<0, 100>> }

---------------------------------------------------------------------------
Init ==
    /\ FOUR_BAR = InitialFourBar
    /\ SELECTED_JOINT = None
    /\ ANIMATE = None
    /\ active = FALSE
    /\ curve = <<>>
    /\ panicked = FALSE
    /\ event = "init"
    /\ edits = 0
    /\ ticks = 0

\* The first joint within JOINT_RADIUS + 10 pixels of the pointer, if any.
Hit(joints, x, y) ==
    { i \in 0..4 : Lt(length(joints[i], <<Px(x), Px(y)>>), Px(JOINT_RADIUS + 10)) }

Min(S) == CHOOSE i \in S : \A j \in S : i <= j

drag_begin(x, y) ==
    /\ ~panicked
    /\ event' = "drag_begin"
    /\ IF is_some(ANIMATE)
       THEN UNCHANGED SELECTED_JOINT
       ELSE LET hit == Hit(FOUR_BAR, x, y)
            IN  SELECTED_JOINT' =
                    IF hit # {} THEN Some(<<Min(hit), FOUR_BAR[Min(hit)]>>) ELSE None
    /\ UNCHANGED <<FOUR_BAR, ANIMATE, active, curve, panicked, edits, ticks>>

\* drag_update without the early return while animating.
drag_update_unguarded(x, y) ==
    /\ ~panicked
    /\ event' = "drag_update"
    /\ IF ~is_some(SELECTED_JOINT)
       THEN UNCHANGED <<FOUR_BAR, edits>>
       ELSE LET joint == unwrap(SELECTED_JOINT)[1]
                p == unwrap(SELECTED_JOINT)[2]
            IN  /\ edits < MaxEdits
                /\ FOUR_BAR' = [FOUR_BAR EXCEPT ![joint] = <<Add(p[1], Px(x)), Add(p[2], Px(y))>>]
                /\ edits' = edits + 1
    /\ UNCHANGED <<SELECTED_JOINT, ANIMATE, active, curve, panicked, ticks>>

drag_update(x, y) ==
    /\ ~panicked
    /\ event' = "drag_update"
    /\ IF is_some(ANIMATE) \/ ~is_some(SELECTED_JOINT)
       THEN UNCHANGED <<FOUR_BAR, edits>>
       ELSE LET joint == unwrap(SELECTED_JOINT)[1]
                p == unwrap(SELECTED_JOINT)[2]
            IN  /\ edits < MaxEdits
                /\ FOUR_BAR' = [FOUR_BAR EXCEPT ![joint] = <<Add(p[1], Px(x)), Add(p[2], Px(y))>>]
                /\ edits' = edits + 1
    /\ UNCHANGED <<SELECTED_JOINT, ANIMATE, active, curve, panicked, ticks>>

drag_end ==
    /\ ~panicked
    /\ event' = "drag_end"
    /\ SELECTED_JOINT' = None
    /\ UNCHANGED <<FOUR_BAR, ANIMATE, active, curve, panicked, edits, ticks>>

\* toggled that clears ANIMATE without writing the snapshot back.
toggled_without_restore ==
    /\ ~panicked
    /\ event' = "toggled"
    /\ active' = ~active
    /\ ticks' = 0
    /\ IF active'
       THEN /\ ANIMATE' = Some(FOUR_BAR)
            /\ UNCHANGED <<FOUR_BAR, panicked>>
       ELSE IF is_some(ANIMATE)
            THEN /\ ANIMATE' = None
                 /\ UNCHANGED <<FOUR_BAR, panicked>>
            ELSE /\ panicked' = TRUE
                 /\ UNCHANGED <<FOUR_BAR, ANIMATE>>
    /\ UNCHANGED <<SELECTED_JOINT, curve, edits>>

\* The button flips, then the handler reads is_active().
toggled ==
    /\ ~panicked
    /\ event' = "toggled"
    /\ active' = ~active
    /\ ticks' = 0
    /\ IF active'
       THEN /\ ANIMATE' = Some(FOUR_BAR)
            /\ UNCHANGED <<FOUR_BAR, panicked>>
       ELSE IF is_some(ANIMATE)
            THEN /\ FOUR_BAR' = unwrap(ANIMATE)
                 /\ ANIMATE' = None
                 /\ UNCHANGED panicked
            ELSE /\ panicked' = TRUE
                 /\ UNCHANGED <<FOUR_BAR, ANIMATE>>
    /\ UNCHANGED <<SELECTED_JOINT, curve, edits>>

\* One frame: the tick callback, then the redraw it queues.
tick ==
    /\ ~panicked
    /\ event' = "tick"
    /\ IF is_some(ANIMATE)
       THEN /\ ticks < MaxTicks
            /\ FOUR_BAR' = tick_step(FOUR_BAR)
            /\ Representable(FOUR_BAR')
            /\ ticks' = ticks + 1
       ELSE UNCHANGED <<FOUR_BAR, ticks>>
    /\ curve' = draw_coupler_curve(FOUR_BAR')
    /\ UNCHANGED <<SELECTED_JOINT, ANIMATE, active, panicked, edits>>

Next ==
    \/ \E pt \in Pointers : drag_begin(pt[1], pt[2])
    \/ \E d \in DragOffsets : drag_update(d[1], d[2])
    \/ drag_end
    \/ toggled
    \/ tick

Spec == Init /\ [][Next]_vars

---------------------------------------------------------------------------
(* Vocabulary of the properties.                                           *)
Animating == is_some(ANIMATE)
Snapshot == unwrap(ANIMATE)

HasNaN(joints) == \E i \in 0..4 : PointIsNaN(joints[i])

\* crank_length, rocker_length, coupler_length.
Lengths(joints) ==
    << length(joints[1], joints[2]), length(joints[0], joints[3]), length(joints[0], joints[1]) >>

\* a/b < c/d for naturals a, c and positive b, d, by continued fractions.
RECURSIVE FracLt(_, _, _, _)
FracLt(a, b, c, d) ==
    IF a \div b # c \div d THEN a \div b < c \div d
    ELSE IF c % d = 0 THEN FALSE
    ELSE IF a % b = 0 THEN TRUE
    ELSE FracLt(d, c % d, b, a % b)

\* a < b for rationals a >= 0, b >= 0.
RatLt(a, b) == FracLt(a[1], a[2], b[1], b[2])

\* The squared distance of two points with rational coordinates.
Dist2(p, q) == Add(Pow2(Sub(p[1], q[1])), Pow2(Sub(p[2], q[2])))

\* The circle of squared radius c2 around p and the circle of squared radius
\* r2 around q meet in two points: (d2 - c2 - r2)^2 < 4*c2*r2 for the squared
\* distance d2 of the centres.
TwoPoints(d2, c2, r2) ==
    LET e == Sub(Sub(d2, c2), r2)
    IN  RatLt(Pow2(e), Mul(R(4), Mul(c2, r2)))

\* They have no point in common, or the same centre.
NoPoint(d2, c2, r2) ==
    LET e == Sub(Sub(d2, c2), r2)
    IN  d2[1] = 0 \/ RatLt(Mul(R(4), Mul(c2, r2)), Pow2(e))

\* The crank joint the next tick moves to.
NextCrank(joints) == CrankPoint(AddAngle(TICK_ANGLE, angle(joints[1], joints[2])), joints)

\* The next tick asks for a crank position the linkage cannot take.
NextUnreachable(joints) ==
    NoPoint(Dist2(NextCrank(joints), joints[3]),
            Dist2(joints[0], joints[1]), Dist2(joints[0], joints[3]))

\* The crank can turn all the way round: with g the distance of the ground
\* pivots and c, r1, r2 the crank, coupler and rocker lengths,
\* g + c < r1 + r2 and |r1 - r2| < |g - c|, which is
\* sqrt(4 r1^2 r2^2) - sqrt(4 g^2 c^2) > |r1^2 + r2^2 - g^2 - c^2|.
FullyRotatable(joints) ==
    LET g2 == Dist2(joints[2], joints[3])
        c2 == Dist2(joints[1], joints[2])
        a2 == Dist2(joints[0], joints[1])
        b2 == Dist2(joints[0], joints[3])
        x == Mul(R(4), Mul(g2, c2))
        y == Mul(R(4), Mul(a2, b2))
        k == Sub(Add(a2, b2), Add(g2, c2))
        m == Sub(Sub(y, x), Pow2(k))
    IN  /\ ~HasNaN(joints)
        /\ m[1] > 0
        /\ x[1] = 0 \/ k[1] = 0 \/ RatLt(Div(Mul(R(4), Pow2(k)), m), Div(m, x))

\* Which side of the line from p1 to p2 the point p3 lies on: positive on
\* the side the +sqrt term of get_rocker_pos points to, 0 on the line.
SideOf(p3, p1, p2) ==
    Sign(Add(Mul(Sub(p3[1], p1[1]), Sub(p2[2], p1[2])),
             Mul(Sub(p3[2], p1[2]), Sub(p1[1], p2[1]))))

Side(joints) == SideOf(joints[0], joints[1], joints[3])

\* The linkage after i ticks.
RECURSIVE Advance(_, _)
Advance(i, joints) == IF i = 0 THEN joints ELSE tick_step(Advance(i - 1, joints))

IsAnimationTick == event' = "tick" /\ Animating

---------------------------------------------------------------------------
(* C1.  A tick whose new crank position is unreachable leaves the linkage  *)
(* as it was, and no tick ever writes a NaN coordinate into it.            *)
C1_UnreachableTickKeepsState ==
    [][ IsAnimationTick =>
            /\ ~HasNaN(FOUR_BAR) => ~HasNaN(FOUR_BAR')
            /\ (~HasNaN(FOUR_BAR) /\ NextUnreachable(FOUR_BAR)) => FOUR_BAR' = FOUR_BAR ]_vars

\* The discriminant get_rocker_pos takes the root of in the next tick.
NextDiscriminant(joints) ==
    Discriminant(length(joints[0], joints[1]), length(joints[0], joints[3]),
                 length(NextCrank(joints), joints[3]))

(* C2.  Where the discriminant is negative the solver fails explicitly     *)
(* and returns no NaN point; where it is zero it returns the tangent       *)
(* point, on the line from the driving point to rocker_ground.             *)
C2_NegativeDiscriminantIsNotNaN ==
    [][ (IsAnimationTick /\ ~HasNaN(FOUR_BAR) /\ IsNum(NextDiscriminant(FOUR_BAR)))
            => /\ NextDiscriminant(FOUR_BAR)[1] < 0 => ~PointIsNaN(FOUR_BAR'[0])
               /\ NextDiscriminant(FOUR_BAR)[1] = 0
                      => (~PointIsNaN(FOUR_BAR'[0]) /\ Side(FOUR_BAR') = 0) ]_vars

(* C3.  A tick never changes crank_ground (joints[2]) or rocker_ground     *)
(* (joints[3]), animating or not.                                          *)
C3_TickKeepsGroundPivots ==
    [][ event' = "tick" => (FOUR_BAR'[2] = FOUR_BAR[2] /\ FOUR_BAR'[3] = FOUR_BAR[3]) ]_vars

C3_Witness ==
    /\ event = "tick" /\ Animating /\ ticks >= 1
    /\ FOUR_BAR[1] # Snapshot[1]
    /\ FOUR_BAR[2] # InitialFourBar[2]

(* C4.  A tick to a reachable position keeps crank_length, rocker_length   *)
(* and coupler_length; between valid states the lengths change only in a   *)
(* drag_update.                                                            *)
C4_TicksKeepLengths ==
    [][ /\ (IsAnimationTick /\ ~HasNaN(FOUR_BAR')) => Lengths(FOUR_BAR') = Lengths(FOUR_BAR)
        /\ (~HasNaN(FOUR_BAR) /\ ~HasNaN(FOUR_BAR') /\ Lengths(FOUR_BAR') # Lengths(FOUR_BAR))
               => event' = "drag_update" ]_vars

C4_Witness ==
    /\ event = "tick" /\ Animating /\ ticks >= 2
    /\ ~HasNaN(FOUR_BAR)
    /\ FOUR_BAR[0] # Snapshot[0]
    /\ edits >= 1

(* C5, as claimed.  The rocker joint a tick writes is never on the other   *)
(* side of the line crank_joint - rocker_ground than the rocker joint it   *)
(* replaces.                                                               *)
C5_TickNeverFlips ==
    [][ (IsAnimationTick /\ ~HasNaN(FOUR_BAR'))
            => Side(FOUR_BAR') * Side(FOUR_BAR) >= 0 ]_vars

(* C5, amended.  The rocker joint a tick writes lies on the side the +sqrt *)
(* term selects, or on the line; from the second tick of an animation on,  *)
(* a tick never moves it across the line.                                  *)
C5_TickSelectsPlusBranch ==
    [][ (IsAnimationTick /\ ~HasNaN(FOUR_BAR'))
            => /\ Side(FOUR_BAR') >= 0
               /\ ticks >= 1 => Side(FOUR_BAR') * Side(FOUR_BAR) >= 0 ]_vars

C5_Witness ==
    /\ event = "tick" /\ Animating /\ ticks >= 2
    /\ ~HasNaN(FOUR_BAR)
    /\ Side(FOUR_BAR) > 0
    /\ Side(Snapshot) < 0

\* The curve just drawn is the closed curve of the linkage: resolution + 1
\* points, the i-th the tracer point after i - 1 steps of 1/resolution turn,
\* the first and the last the tracer point itself.
CurveIsClosedLocus ==
    /\ Len(curve) = COUPLER_CURVE_RESOLUTION + 1
    /\ curve[1] = FOUR_BAR[4]
    /\ curve[COUPLER_CURVE_RESOLUTION + 1] = FOUR_BAR[4]
    /\ \A i \in 0..(COUPLER_CURVE_RESOLUTION - 1) :
           Representable(Advance(i, FOUR_BAR)) => curve[i + 1] = Advance(i, FOUR_BAR)[4]

(* C6, as claimed.  For a fully rotatable linkage the curve drawn has      *)
(* resolution + 1 points, sampled in order of crank angle, the first and   *)
(* the last at the tracer point.                                           *)
C6_CurveClosedWhenRotatable ==
    (event = "tick" /\ FullyRotatable(FOUR_BAR)) => CurveIsClosedLocus

(* C6, amended.  The same, for a fully rotatable linkage whose rocker      *)
(* joint lies on the side of the line crank_joint - rocker_ground that the *)
(* solver selects.                                                         *)
C6_CurveClosedOnSolverSide ==
    (event = "tick" /\ FullyRotatable(FOUR_BAR) /\ Side(FOUR_BAR) >= 0) => CurveIsClosedLocus

C6_Witness ==
    /\ event = "tick" /\ FullyRotatable(FOUR_BAR) /\ Side(FOUR_BAR) > 0
    /\ edits >= 1
    /\ \A i \in 1..COUPLER_CURVE_RESOLUTION : ~PointIsIrr(curve[i]) /\ ~PointIsNaN(curve[i])
    /\ curve[2] # curve[1]

\* One full revolution has brought the moving points back.
BackAtStart ==
    /\ FOUR_BAR[0] = Snapshot[0]
    /\ FOUR_BAR[1] = Snapshot[1]
    /\ FOUR_BAR[4] = Snapshot[4]

(* C7, as claimed.  For a fully rotatable linkage, k ticks of 1/k turn     *)
(* bring rocker_joint, crank_joint and tracer_point back.                  *)
C7_RevolutionIsIdentity ==
    (Animating /\ ticks = TicksPerTurn /\ FullyRotatable(Snapshot)) => BackAtStart

(* C7, amended.  The same, for a fully rotatable linkage whose rocker      *)
(* joint lies on the side the solver selects.                              *)
C7_RevolutionIsIdentityOnSolverSide ==
    (Animating /\ ticks = TicksPerTurn /\ FullyRotatable(Snapshot) /\ Side(Snapshot) >= 0)
        => BackAtStart

C7_Witness ==
    /\ Animating /\ ticks = TicksPerTurn
    /\ FullyRotatable(Snapshot) /\ Side(Snapshot) > 0
    /\ Snapshot[1] # Snapshot[2]
    /\ BackAtStart

(* C8.  A tick to a reachable position keeps the tracer point's distances  *)
(* to crank_joint and to rocker_joint.                                     *)
C8_TracerRigidOnCoupler ==
    [][ (IsAnimationTick /\ ~HasNaN(FOUR_BAR'))
            => /\ length(FOUR_BAR'[4], FOUR_BAR'[1]) = length(FOUR_BAR[4], FOUR_BAR[1])
               /\ length(FOUR_BAR'[4], FOUR_BAR'[0]) = length(FOUR_BAR[4], FOUR_BAR[0]) ]_vars

C8_Witness ==
    /\ event = "tick" /\ Animating /\ ticks >= 1
    /\ ~HasNaN(FOUR_BAR)
    /\ FOUR_BAR[4] # Snapshot[4]
    /\ FOUR_BAR[0] # Snapshot[0]

(* C9.  While ANIMATE holds a snapshot, drag_begin and drag_update change  *)
(* neither FOUR_BAR nor SELECTED_JOINT; while it is None a tick does not   *)
(* change FOUR_BAR.                                                        *)
C9_AnimationExcludesDrag ==
    [][ /\ (Animating /\ event' \in {"drag_begin", "drag_update"})
               => UNCHANGED <<FOUR_BAR, SELECTED_JOINT>>
        /\ (~Animating /\ event' = "tick") => UNCHANGED FOUR_BAR ]_vars

C9_Witness ==
    /\ Animating /\ event = "drag_update"
    /\ is_some(SELECTED_JOINT)
    /\ edits < MaxEdits

(* C10.  Switching on stores FOUR_BAR in ANIMATE; nothing else writes      *)
(* ANIMATE; switching off finds the snapshot there, sets FOUR_BAR to it    *)
(* and clears ANIMATE without a failed unwrap.                             *)
C10_ToggleRestoresSnapshot ==
    [][ /\ (event' = "toggled" /\ active') => ANIMATE' = Some(FOUR_BAR)
        /\ (event' = "toggled" /\ ~active')
               => /\ Animating
                  /\ FOUR_BAR' = Snapshot
                  /\ ANIMATE' = None
        /\ event' # "toggled" => ANIMATE' = ANIMATE
        /\ ~panicked' ]_vars

\* Ticks have moved the tracer point (the curve drawn last closes on where it
\* was), and switching off has put it back.
C10_Witness ==
    /\ event = "toggled" /\ ~active /\ ~panicked /\ ~Animating
    /\ edits >= 1
    /\ Len(curve) > 0
    /\ curve[Len(curve)] # FOUR_BAR[4]
    /\ ~PointIsNaN(curve[Len(curve)])

=============================================================================
